---- MODULE Spec2Model ----
(***************************************************************************)
(* A model of festival-of-stress (src/src/main.rs, src/src/zfs.rs): the    *)
(* "backup" and "io" modes of main(), Seed::setup, Plant::setup, the I/O   *)
(* threads of Plant::start, file_futz, and the functions of zfs.rs.        *)
(***************************************************************************)
EXTENDS Integers, Sequences, FiniteSets, TLC

(***************************************************************************)
(* Bounds of the model.                                                    *)
(***************************************************************************)
\* Number of child datasets that zfs_dataset_children reports.
NumDatasets == 2
\* Largest number of snapshots a dataset holds when the backup process starts.
MaxInitSnaps == 5
\* Number of backup cycles explored.
MaxCycles == 2
\* Largest number of seconds by which the clock overshoots a sleep (the sleep
\* returns late, or the cycle's work itself took that long).
MaxJitter == 1
\* Largest number of transfers queued when the workers of a cycle start.
MaxQueue == 5
\* Largest number of snapshots that others than the backup process destroy.
MaxRemoved == 2

\* Number of seeds (main sets up 10).
NumSeeds == 2
\* Number of files of a seed's corpus (SEED_FILE_COUNT is 1_000).
SEED_FILE_COUNT == 2
\* Number of values of each fan-out directory index (the code draws 0..16).
FanOut == 1
\* Number of values of the random file name (the code draws a u64).
NameValues == 2
\* Largest file size handed to file_futz, in kilobytes.
MaxBlocks == 4
\* Largest number of operations file_futz draws (the code draws 1..10_000).
MaxIops == 2
\* The modulus at which the block count sz / 1024 - 1 wraps: the code's is
\* 2^64, the model's is this one, larger than every block count it handles.
WordModulus == 8
\* Largest number of regular files in the tree a churn thread walks.
MaxFiles == 2
\* Largest number of entries for which one directory walk reports an error.
MaxWalkErrors == 1
\* Largest length of a dataset or snapshot name handed to a zfs.rs function.
MaxNameLen == 2
\* Number of plants (main establishes 60).
NumPlants == 2

(***************************************************************************)
(* Program constants.                                                      *)
(***************************************************************************)
maxsnaps == 5
NWORKERS == 4
SLEEP_SECS == 5
KILOBYTE == 1024

VARIABLES
    \* ---- backup mode: the storage engine and the wall clock
    now,        \* wall clock, seconds since the epoch
    snaps,      \* snaps[d]: snapshot names of dataset d, in creation order
    \* ---- backup mode: the main thread
    mpc,        \* position of the main thread
    cycle,      \* number of cycles started
    snapname,   \* the cycle's snapshot name
    todo,       \* datasets the for loop has still to visit
    ds,         \* the for loop's current dataset
    listed,     \* "snaps": the last result of zfs_snapshot_list
    sends,      \* the Vec behind Arc<Mutex<..>>
    mutex,      \* holder of the Mutex: Free, MainThread or Holder(w)
    threads,    \* Vec of JoinHandle, as worker ids
    \* ---- backup mode: the worker threads
    wpc,        \* position of each worker
    witem,      \* (ds, sold, snew) a worker popped
    \* ---- backup mode: history
    used,       \* snapshot names computed so far, one per cycle
    trimmed,    \* datasets whose retention loop has finished in this cycle
    ndestroy,   \* ndestroy[d]: snapshots of d destroyed in this cycle
    pushed,     \* items pushed to sends in this cycle
    taken,      \* taken[d]: times d's item was popped in this cycle
    sent,       \* items for which zfs_send_to_null was run in this cycle
    atsnap,     \* atsnap[d]: d's snapshots when its cycle snapshot was taken
    failed,     \* the call of the main thread that failed in this cycle
    dcalls,     \* dcalls[d]: zfs_destroy_snapshot calls for d in this cycle
    removed     \* snapshots destroyed by others than this process

backupVars == <<now, snaps, mpc, cycle, snapname, todo, ds, listed, sends,
                mutex, threads, wpc, witem, used, trimmed, ndestroy, pushed,
                taken, sent, atsnap, failed, dcalls, removed>>

\* ---- Seed::setup
VARIABLES
    rootExists, \* whether the dataset <pool>/seed exists
    seed,       \* seed[id]: the seed dataset <pool>/seed/<id>
    spc,        \* position in Seed::setup
    sid,        \* "id": the seed being set up
    iter,       \* the corpus loop's counter
    fp,         \* "fp": the path of the file being generated
    stale,      \* files of the seed that an earlier call of setup wrote
    entry,      \* what the seed dataset was when the call began
    ops         \* destroy, create, write and snapshot operations of the call

seedVars == <<rootExists, seed, spc, sid, iter, fp, stale, entry, ops>>

\* ---- file_futz
VARIABLES
    build,      \* "debug" (overflow checks) or "release" (wrapping)
    fsize,      \* the file's size in bytes
    fpc,        \* position in file_futz
    sz,         \* "sz": the size read from the metadata
    iops,       \* "iops": number of operations to perform
    opn,        \* operations performed so far
    write,      \* "write": whether the operation writes
    target,     \* "target": the offset drawn
    fpos,       \* the file position after the seek
    xfer        \* the last kilobyte transferred: <<kind, first byte, length>>

churnVars == <<build, fsize, fpc, sz, iops, opn, write, target, fpos, xfer>>

\* ---- Plant::start: one I/O thread of a plant
VARIABLES
    tpc,        \* position of the thread
    tree,       \* the entries under the plant's mountpoint, in walk order
    files,      \* "files": the paths collected by the walk
    neworder,   \* "neworder": the VecDeque of indexes into files
    si,         \* "i" of the shuffle loop
    cur,        \* "i" of the sweep loop: the index popped
    visits,     \* visits[k]: times file_futz was called on files[k-1]
    logged      \* "file futz error" lines logged in this sweep

sweepVars == <<tpc, tree, files, neworder, si, cur, visits, logged>>

\* ---- zfs.rs: one call of one of its functions
VARIABLES
    zpc,        \* "call" before the call, "return" after it
    call,       \* the function called and its name arguments
    execd,      \* the external commands the call executed
    reply,      \* what the engine answered to the command
    ret         \* what the call returned

zfsVars == <<zpc, call, execd, reply, ret>>

\* ---- main(), "io"
VARIABLES
    ipc,        \* position of the main thread
    seeds,      \* "seeds": the Vec of seeds set up, as seed ids
    container,  \* the dataset dynamite/plant: "none", "old" or "new"
    plant,      \* plant[id]: the dataset dynamite/plant/<id>, likewise
    plants,     \* "plants": the Vec of plants set up
    pid,        \* "id" of the plant being set up
    parent,     \* "parent": the seed that plant is cloned from
    started,    \* ids of the plants whose I/O threads are running
    previous    \* ids of the plants that an earlier run had left

ioVars == <<ipc, seeds, container, plant, plants, pid, parent, started,
            previous>>

vars == <<backupVars, seedVars, churnVars, sweepVars, zfsVars, ioVars>>

\* What the actions of each part leave alone.
notBackup == <<seedVars, churnVars, sweepVars, zfsVars, ioVars>>
notSeed == <<backupVars, churnVars, sweepVars, zfsVars, ioVars>>
notFutz == <<backupVars, seedVars, sweepVars, zfsVars, ioVars>>
notSweep == <<backupVars, seedVars, zfsVars, ioVars>>
notZfs == <<backupVars, seedVars, churnVars, sweepVars, ioVars>>
notIo == <<backupVars, seedVars, churnVars, sweepVars, zfsVars>>

(***************************************************************************)
(* The states of Seed::setup and of file_futz before they run.             *)
(***************************************************************************)
SeedIds == 0 .. (NumSeeds - 1)
NoPath == <<>>

\* A dataset that does not exist.
NoDataset ==
    [exists |-> FALSE, files |-> {}, partial |-> {}, snaps |-> {},
     flushed |-> 0]

\* What is remembered of a dataset as it was when a call of setup began.
Summary(r) ==
    [exists |-> r.exists, final |-> "final" \in r.snaps,
     nfiles |-> Cardinality(r.files), npartial |-> Cardinality(r.partial)]

\* An empty pool, and Seed::setup(log, pool, id) at position pc.
SeedStart(id, pc) ==
    /\ rootExists = FALSE
    /\ seed = [i \in SeedIds |-> NoDataset]
    /\ spc = pc
    /\ sid = id
    /\ iter = 0
    /\ fp = NoPath
    /\ stale = {}
    /\ entry = Summary(NoDataset)
    /\ ops = <<>>

\* file_futz at position pc on a file of the given size.
ChurnStart(b, size, pc) ==
    /\ build = b
    /\ fsize = size
    /\ fpc = pc
    /\ sz = 0
    /\ iops = 0
    /\ opn = 0
    /\ write = FALSE
    /\ target = 0
    /\ fpos = 0
    /\ xfer = <<>>

\* An I/O thread at position pc over the entries t.
SweepStart(t, pc) ==
    /\ tpc = pc
    /\ tree = t
    /\ files = <<>>
    /\ neworder = <<>>
    /\ si = 0
    /\ cur = 0
    /\ visits = <<>>
    /\ logged = 0

\* No function of zfs.rs called yet.
NoCall == [op |-> "none", datasets |-> <<>>, snapshots |-> <<>>]

ZfsStart(pc) ==
    /\ zpc = pc
    /\ call = NoCall
    /\ execd = <<>>
    /\ reply = "none"
    /\ ret = "none"

\* The plant ids of a run: (0..60) in main.
PlantIds == 0 .. (NumPlants - 1)

\* main in "io" mode at position pc, over a pool in which an earlier run
\* left the plant container c and the plants old.
IoStart(c, old, pc) ==
    /\ ipc = pc
    /\ seeds = <<>>
    /\ container = c
    /\ plant = [id \in PlantIds |-> IF id \in old THEN "old" ELSE "none"]
    /\ plants = <<>>
    /\ pid = 0
    /\ parent = 0
    /\ started = {}
    /\ previous = old

SeedOff == SeedStart(0, "off")
ChurnOff == ChurnStart("debug", 0, "off")
SweepOff == SweepStart(<<>>, "off")
ZfsOff == ZfsStart("off")
IoOff == IoStart("none", {}, "off")

Datasets == 1 .. NumDatasets
Workers == 1 .. NWORKERS
NoItem == <<>>

\* Who holds the Mutex.
Free == <<"free">>
MainThread == <<"main">>
Holder(w) == <<"worker", w>>

(***************************************************************************)
(* zfs.rs: names and the engine's answers.                                 *)
(***************************************************************************)
\* format!("backup-{}", snapnum)
SnapName(snapnum) == <<"backup", snapnum>>

\* format!("{}@{}", dataset, snapname)
FullName(dataset, name) == <<dataset, "@", name>>

\* The wall clock when the backup process starts: the snapshots an earlier
\* run left were taken at earlier seconds.
StartTime == MaxInitSnaps + 1

\* Snapshots left by earlier runs: n names, oldest first.
InitSnaps(n) == [i \in 1 .. n |-> SnapName(i)]

\* The datasets' snapshots when the backup process starts: the first dataset
\* holds n snapshots, the next one more, and so on around 0 .. MaxInitSnaps.
InitPool(n) ==
    [d \in Datasets |-> InitSnaps((n + d - 1) % (MaxInitSnaps + 1))]

\* zfs_snapshot_list: one line "dataset@name" per snapshot, sorted by
\* creation (-s creation); each line is split at '@' and its second part kept.
zfs_snapshot_list(dataset) ==
    LET lines == [i \in 1 .. Len(snaps[dataset]) |->
                     FullName(dataset, snaps[dataset][i])]
    IN  [i \in 1 .. Len(lines) |-> lines[i][3]]

\* zfs_dataset_children: the engine's list of datasets, one line each.
zfs_dataset_children == [i \in 1 .. NumDatasets |-> i]

SeqRange(s) == {s[i] : i \in 1 .. Len(s)}

\* The engine's "zfs destroy dataset@name".
RemoveSnap(s, name) == SelectSeq(s, LAMBDA x : x # name)

\* What the engine answers: "success", or the text of its failure.  A fault
\* is any failure other than the two the code looks for.
EngineCreate(exists, fault) ==
    IF fault THEN "other failure"
    ELSE IF exists THEN "dataset already exists" ELSE "success"

EngineDestroy(exists, fault) ==
    IF fault THEN "other failure"
    ELSE IF exists THEN "success" ELSE "dataset does not exist"

EngineList(exists, fault) ==
    IF fault THEN "other failure"
    ELSE IF exists THEN "success" ELSE "dataset does not exist"

EngineSnapshot(exists, fault) ==
    IF fault THEN "other failure"
    ELSE IF exists THEN "dataset already exists" ELSE "success"

\* zfs_create: Ok on success, and on "dataset already exists" if exists_ok.
zfs_create_tolerant(answer, exists_ok) ==
    IF answer \in {"success", "dataset already exists"} THEN "Ok" ELSE "Err"
zfs_create(answer, exists_ok) ==
    IF answer = "success" THEN "Ok"
    ELSE IF exists_ok /\ answer = "dataset already exists" THEN "Ok"
    ELSE "Err"

\* zfs_destroy and zfs_destroy_snapshot: Ok on success and on "dataset does
\* not exist".
zfs_destroy(answer) ==
    IF answer = "success" THEN "Ok"
    ELSE IF answer = "dataset does not exist" THEN "Ok"
    ELSE "Err"

\* zfs_snapshot_exists: Ok(true) on success, Ok(false) on "dataset does not
\* exist", an error otherwise.
zfs_snapshot_exists_never(answer) ==
    IF answer \in {"success", "dataset does not exist"} THEN "false"
    ELSE "Err"
zfs_snapshot_exists(answer) ==
    IF answer = "success" THEN "true"
    ELSE IF answer = "dataset does not exist" THEN "false"
    ELSE "Err"

\* zfs_snapshot, zfs_get, ...: Ok on success only.
zfs_plain(answer) == IF answer = "success" THEN "Ok" ELSE "Err"

(***************************************************************************)
(* main(), "backup": the pieces of the loop body.                          *)
(***************************************************************************)
\* if snaps.len() < maxsnaps { break snaps; }
RetentionDoneOffByOne(l) == Len(l) <= maxsnaps
RetentionDoneLate(l) == Len(l) < maxsnaps - 1
RetentionDone(l) == Len(l) < maxsnaps

\* zfs_destroy_snapshot(&log, &ds, &snaps[0])
RetentionVictimNewest(l) == l[Len(l)]
RetentionVictim(l) == l[1]

\* if snaps.len() < 2 { continue; }
SkipSend(l) == Len(l) < 2

\* let sold = snaps[snaps.len() - 2]
SelectOldFirst(l) == l[1]
SelectOld(l) == l[Len(l) - 1]

\* let snew = snaps[snaps.len() - 1]
SelectNewBase(l) == l[Len(l) - 1]
SelectNew(l) == l[Len(l)]

\* sends.pop(): the last element, and the Vec without it.
PopItem(q) == q[Len(q)]
PopRestKeep(q) == q
PopRest(q) == SubSeq(q, 1, Len(q) - 1)

\* The MutexGuard of the worker's block is dropped at the end of the block,
\* before zfs_send_to_null is called.
HolderAfterPopKept(w) == Holder(w)
HolderAfterPop(w) == Free

\* for ds in zfs_dataset_children(..)? { .. }: the loop ends when the
\* iterator has no dataset left.
ForDoneEarly(t) == Len(t) <= 1
ForDone(t) == t = <<>>

\* t.join(): returns when the thread has finished.
FinishedOrRunning(r) == r \in {"ok", "err", "panic", "lock", "locked", "send"}
Finished(r) == r \in {"ok", "err", "panic"}

\* t.join().unwrap(): only a panic of the thread is unwrapped; the Result<()>
\* the thread returned is dropped.
JoinAbortsOnErr(r) == r \in {"panic", "err"}
JoinAborts(r) == r = "panic"

\* zfs_send_to_null(..)?; inside the worker's loop: an error ends the
\* thread with Err, otherwise the loop goes back to the lock.
AfterSendOnce(fault) == IF fault THEN "err" ELSE "ok"
AfterSend(fault) == IF fault THEN "err" ELSE "lock"

\* sleep(5_000): milliseconds to whole seconds.
SleepNone == SLEEP_SECS - SLEEP_SECS
SleepSeconds == SLEEP_SECS

\* The backup process at position pc, over a pool left by earlier runs.
BackupStart(pool, pc) ==
    /\ now = StartTime
    /\ snaps = pool
    /\ mpc = pc
    /\ cycle = 0
    /\ snapname = SnapName(0)
    /\ todo = <<>>
    /\ ds = 0
    /\ listed = <<>>
    /\ sends = <<>>
    /\ mutex = Free
    /\ threads = <<>>
    /\ wpc = [w \in Workers |-> "idle"]
    /\ witem = [w \in Workers |-> NoItem]
    /\ used = <<>>
    /\ trimmed = {}
    /\ ndestroy = [d \in Datasets |-> 0]
    /\ pushed = {}
    /\ taken = [d \in Datasets |-> 0]
    /\ sent = {}
    /\ atsnap = [d \in Datasets |-> <<>>]
    /\ failed = "none"
    /\ dcalls = [d \in Datasets |-> 0]
    /\ removed = 0

BackupOff == BackupStart(InitPool(0), "off")

BackupInit ==
    /\ \E n \in 0 .. MaxInitSnaps : BackupStart(InitPool(n), "name")
    /\ SeedOff
    /\ ChurnOff
    /\ SweepOff
    /\ ZfsOff
    /\ IoOff

\* let snapnum = SystemTime::now()...as_secs(); let snapname = ...;
\* let mut sends = Arc::new(Mutex::new(Vec::new()));
MainName ==
    /\ mpc = "name"
    /\ cycle < MaxCycles
    /\ cycle' = cycle + 1
    /\ snapname' = SnapName(now)
    /\ used' = Append(used, SnapName(now))
    /\ sends' = <<>>
    /\ mpc' = "children"
    /\ trimmed' = {}
    /\ ndestroy' = [d \in Datasets |-> 0]
    /\ pushed' = {}
    /\ taken' = [d \in Datasets |-> 0]
    /\ sent' = {}
    /\ wpc' = [w \in Workers |-> "idle"]
    /\ atsnap' = [d \in Datasets |-> <<>>]
    /\ failed' = "none"
    /\ dcalls' = [d \in Datasets |-> 0]
    /\ UNCHANGED removed
    /\ UNCHANGED <<now, snaps, todo, ds, listed, mutex, threads, witem>>
    /\ UNCHANGED notBackup

\* for ds in zfs_dataset_children(&log, "dynamite/plant")?
MainChildren ==
    /\ mpc = "children"
    /\ \E fault \in BOOLEAN :
         IF fault
         THEN /\ mpc' = "exit"
              /\ failed' = "children"
              /\ todo' = todo
         ELSE /\ mpc' = "next"
              /\ failed' = failed
              /\ todo' = zfs_dataset_children
    /\ UNCHANGED <<now, snaps, cycle, snapname, ds, listed, sends, mutex,
                   threads, wpc, witem, used, trimmed, ndestroy, pushed,
                   taken, sent>>
    /\ UNCHANGED <<atsnap, dcalls, removed>>
    /\ UNCHANGED notBackup

\* The head of the for loop: the next dataset, or the end of the loop.
MainForNext ==
    /\ mpc = "next"
    /\ IF ForDone(todo)
       THEN /\ mpc' = "spawn"
            /\ UNCHANGED <<todo, ds>>
       ELSE /\ mpc' = "snapshot"
            /\ ds' = Head(todo)
            /\ todo' = Tail(todo)
    /\ UNCHANGED <<now, snaps, cycle, snapname, listed, sends, mutex,
                   threads, wpc, witem, used, trimmed, ndestroy, pushed,
                   taken, sent>>
    /\ UNCHANGED <<atsnap, failed, dcalls, removed>>
    /\ UNCHANGED notBackup

\* zfs_snapshot(&log, &ds, &snapname, false)?
\* The engine refuses a name the dataset already holds.
MainSnapshot ==
    /\ mpc = "snapshot"
    /\ \E fault \in BOOLEAN :
         LET answer == EngineSnapshot(snapname \in SeqRange(snaps[ds]), fault)
         IN  /\ snaps' = IF answer = "success"
                         THEN [snaps EXCEPT ![ds] = Append(@, snapname)]
                         ELSE snaps
             /\ atsnap' = IF answer = "success"
                          THEN [atsnap EXCEPT ![ds] = snaps'[ds]]
                          ELSE atsnap
             /\ mpc' = IF zfs_plain(answer) = "Ok" THEN "list" ELSE "exit"
             /\ failed' = IF zfs_plain(answer) = "Ok"
                          THEN failed ELSE "snapshot"
    /\ UNCHANGED <<now, cycle, snapname, todo, ds, listed, sends, mutex,
                   threads, wpc, witem, used, trimmed, ndestroy, pushed,
                   taken, sent>>
    /\ UNCHANGED <<dcalls, removed>>
    /\ UNCHANGED notBackup

\* let snaps = zfs_snapshot_list(&log, &ds)?;
\* if snaps.len() < maxsnaps { break snaps; }
MainList ==
    /\ mpc = "list"
    /\ \E fault \in BOOLEAN :
         IF fault
         THEN /\ mpc' = "exit"
              /\ failed' = "list"
              /\ UNCHANGED <<listed, trimmed>>
         ELSE /\ listed' = zfs_snapshot_list(ds)
              /\ failed' = failed
              /\ IF RetentionDone(listed')
                 THEN /\ mpc' = "select"
                      /\ trimmed' = trimmed \cup {ds}
                 ELSE /\ mpc' = "destroy"
                      /\ trimmed' = trimmed
    /\ UNCHANGED <<now, snaps, cycle, snapname, todo, ds, sends, mutex,
                   threads, wpc, witem, used, ndestroy, pushed, taken, sent>>
    /\ UNCHANGED <<atsnap, dcalls, removed>>
    /\ UNCHANGED notBackup

\* zfs_destroy_snapshot(&log, &ds, &snaps[0])?
MainDestroy ==
    /\ mpc = "destroy"
    /\ \E fault \in BOOLEAN :
         LET victim == RetentionVictim(listed)
             answer == EngineDestroy(victim \in SeqRange(snaps[ds]), fault)
         IN  /\ snaps' = IF answer = "success"
                         THEN [snaps EXCEPT ![ds] = RemoveSnap(@, victim)]
                         ELSE snaps
             /\ ndestroy' = IF answer = "success"
                            THEN [ndestroy EXCEPT ![ds] = @ + 1]
                            ELSE ndestroy
             /\ mpc' = IF zfs_destroy(answer) = "Ok" THEN "list" ELSE "exit"
             /\ failed' = IF zfs_destroy(answer) = "Ok"
                          THEN failed ELSE "destroy"
    /\ UNCHANGED <<now, cycle, snapname, todo, ds, listed, sends, mutex,
                   threads, wpc, witem, used, trimmed, pushed, taken, sent>>
    /\ dcalls' = [dcalls EXCEPT ![ds] = @ + 1]
    /\ UNCHANGED <<atsnap, removed>>
    /\ UNCHANGED notBackup

\* if snaps.len() < 2 { continue; }  let sold = ...; let snew = ...;
MainSelect ==
    /\ mpc = "select"
    /\ mpc' = IF SkipSend(listed) THEN "next" ELSE "lock"
    /\ UNCHANGED <<now, snaps, cycle, snapname, todo, ds, listed, sends,
                   mutex, threads, wpc, witem, used, trimmed, ndestroy,
                   pushed, taken, sent>>
    /\ UNCHANGED <<atsnap, failed, dcalls, removed>>
    /\ UNCHANGED notBackup

\* sends.lock().unwrap()
MainLock ==
    /\ mpc = "lock"
    /\ mutex = Free
    /\ mutex' = MainThread
    /\ mpc' = "push"
    /\ UNCHANGED <<now, snaps, cycle, snapname, todo, ds, listed, sends,
                   threads, wpc, witem, used, trimmed, ndestroy, pushed,
                   taken, sent>>
    /\ UNCHANGED <<atsnap, failed, dcalls, removed>>
    /\ UNCHANGED notBackup

\* .push((ds, sold, snew)); the temporary guard is dropped with the statement.
MainPush ==
    /\ mpc = "push"
    /\ mutex = MainThread
    /\ LET item == <<ds, SelectOld(listed), SelectNew(listed)>>
       IN  /\ sends' = Append(sends, item)
           /\ pushed' = pushed \cup {item}
    /\ mutex' = Free
    /\ mpc' = "next"
    /\ UNCHANGED <<now, snaps, cycle, snapname, todo, ds, listed, threads,
                   wpc, witem, used, trimmed, ndestroy, taken, sent>>
    /\ UNCHANGED <<atsnap, failed, dcalls, removed>>
    /\ UNCHANGED notBackup

\* for _ in 0..4 { threads.push(thread::spawn(...)); }
MainSpawn ==
    /\ mpc = "spawn"
    /\ LET w == Len(threads) + 1
       IN  /\ threads' = Append(threads, w)
           /\ wpc' = [wpc EXCEPT ![w] = "lock"]
           /\ mpc' = IF w = NWORKERS THEN "join" ELSE "spawn"
    /\ UNCHANGED <<now, snaps, cycle, snapname, todo, ds, listed, sends,
                   mutex, witem, used, trimmed, ndestroy, pushed, taken,
                   sent>>
    /\ UNCHANGED <<atsnap, failed, dcalls, removed>>
    /\ UNCHANGED notBackup

\* while let Some(t) = threads.pop() { t.join().unwrap(); }
MainJoin ==
    /\ mpc = "join"
    /\ IF threads = <<>>
       THEN /\ mpc' = "sleep"
            /\ threads' = threads
       ELSE LET t == threads[Len(threads)]
            IN  /\ Finished(wpc[t])
                /\ threads' = SubSeq(threads, 1, Len(threads) - 1)
                /\ mpc' = IF JoinAborts(wpc[t]) THEN "exit" ELSE "join"
    /\ UNCHANGED <<now, snaps, cycle, snapname, todo, ds, listed, sends,
                   mutex, wpc, witem, used, trimmed, ndestroy, pushed,
                   taken, sent>>
    /\ UNCHANGED <<atsnap, failed, dcalls, removed>>
    /\ UNCHANGED notBackup

\* sleep(5_000): the clock has advanced by at least that long when the loop
\* resumes.
MainSleep ==
    /\ mpc = "sleep"
    /\ \E extra \in 0 .. MaxJitter : now' = now + SleepSeconds + extra
    /\ mpc' = "name"
    /\ UNCHANGED <<snaps, cycle, snapname, todo, ds, listed, sends, mutex,
                   threads, wpc, witem, used, trimmed, ndestroy, pushed,
                   taken, sent>>
    /\ UNCHANGED <<atsnap, failed, dcalls, removed>>
    /\ UNCHANGED notBackup

\* let mut sends = sends.lock().unwrap();
WorkerLock(w) ==
    /\ wpc[w] = "lock"
    /\ mutex = Free
    /\ mutex' = Holder(w)
    /\ wpc' = [wpc EXCEPT ![w] = "locked"]
    /\ UNCHANGED <<now, snaps, mpc, cycle, snapname, todo, ds, listed,
                   sends, threads, witem, used, trimmed, ndestroy, pushed,
                   taken, sent>>
    /\ UNCHANGED <<atsnap, failed, dcalls, removed>>
    /\ UNCHANGED notBackup

\* if let Some(x) = sends.pop() { x } else { return Ok(()); }
WorkerPop(w) ==
    /\ wpc[w] = "locked"
    /\ mutex = Holder(w)
    /\ IF sends = <<>>
       THEN /\ wpc' = [wpc EXCEPT ![w] = "ok"]
            /\ mutex' = Free
            /\ UNCHANGED <<sends, witem, taken>>
       ELSE /\ witem' = [witem EXCEPT ![w] = PopItem(sends)]
            /\ taken' = [taken EXCEPT ![PopItem(sends)[1]] = @ + 1]
            /\ sends' = PopRest(sends)
            /\ wpc' = [wpc EXCEPT ![w] = "send"]
            /\ mutex' = HolderAfterPop(w)
    /\ UNCHANGED <<now, snaps, mpc, cycle, snapname, todo, ds, listed,
                   threads, used, trimmed, ndestroy, pushed, sent>>
    /\ UNCHANGED <<atsnap, failed, dcalls, removed>>
    /\ UNCHANGED notBackup

\* zfs_send_to_null(&log, &ds, &sold, &snew)?;
WorkerSend(w) ==
    /\ wpc[w] = "send"
    /\ sent' = sent \cup {witem[w]}
    /\ witem' = [witem EXCEPT ![w] = NoItem]
    /\ \E fault \in BOOLEAN :
         wpc' = [wpc EXCEPT ![w] = AfterSend(fault)]
    /\ UNCHANGED <<now, snaps, mpc, cycle, snapname, todo, ds, listed,
                   sends, mutex, threads, used, trimmed, ndestroy, pushed,
                   taken>>
    /\ UNCHANGED <<atsnap, failed, dcalls, removed>>
    /\ UNCHANGED notBackup

BackupNext ==
    \/ MainName
    \/ MainChildren
    \/ MainForNext
    \/ MainSnapshot
    \/ MainList
    \/ MainDestroy
    \/ MainSelect
    \/ MainLock
    \/ MainPush
    \/ MainSpawn
    \/ MainJoin
    \/ MainSleep
    \/ \E w \in Workers : WorkerLock(w)
    \/ \E w \in Workers : WorkerPop(w)
    \/ \E w \in Workers : WorkerSend(w)

BackupSpec == BackupInit /\ [][BackupNext]_vars

(***************************************************************************)
(* The worker pool of one cycle on its own: the main thread has finished   *)
(* its loop over k datasets, each of which held one snapshot before the    *)
(* cycle, and has queued a transfer for each.                              *)
(***************************************************************************)
QueuedItem(d) == <<d, SnapName(1), SnapName(StartTime)>>

PoolStart(k) ==
    /\ now = StartTime
    /\ snaps = [d \in 1 .. k |-> <<SnapName(1), SnapName(StartTime)>>]
    /\ mpc = "spawn"
    /\ cycle = 1
    /\ snapname = SnapName(StartTime)
    /\ todo = <<>>
    /\ ds = k
    /\ listed = IF k = 0 THEN <<>> ELSE <<SnapName(1), SnapName(StartTime)>>
    /\ sends = [d \in 1 .. k |-> QueuedItem(d)]
    /\ mutex = Free
    /\ threads = <<>>
    /\ wpc = [w \in Workers |-> "idle"]
    /\ witem = [w \in Workers |-> NoItem]
    /\ used = <<SnapName(StartTime)>>
    /\ trimmed = 1 .. k
    /\ ndestroy = [d \in 1 .. k |-> 0]
    /\ pushed = {QueuedItem(d) : d \in 1 .. k}
    /\ taken = [d \in 1 .. k |-> 0]
    /\ sent = {}
    /\ atsnap = [d \in 1 .. k |-> <<SnapName(1), SnapName(StartTime)>>]
    /\ failed = "none"
    /\ dcalls = [d \in 1 .. k |-> 0]
    /\ removed = 0

PoolInit ==
    /\ \E k \in 0 .. MaxQueue : PoolStart(k)
    /\ SeedOff
    /\ ChurnOff
    /\ SweepOff
    /\ ZfsOff
    /\ IoOff

PoolNext ==
    \/ MainSpawn
    \/ MainJoin
    \/ \E w \in Workers : WorkerLock(w)
    \/ \E w \in Workers : WorkerPop(w)
    \/ \E w \in Workers : WorkerSend(w)

PoolSpec == PoolInit /\ [][PoolNext]_vars

(***************************************************************************)
(* Claims about the backup cycle.                                          *)
(***************************************************************************)
\* Items whose transfer validation has been started or has run in this cycle.
Validated == sent \cup {witem[w] : w \in {x \in Workers : wpc[x] = "send"}}

\* C1 (retention invariant): once the retention loop of a dataset has
\* finished in a cycle, the dataset holds fewer than maxsnaps snapshots,
\* whatever it held before the cycle.
C1_RetentionInvariant ==
    \A d \in trimmed : Len(snaps[d]) < maxsnaps

\* A dataset that held maxsnaps or more before the cycle (two or more
\* snapshots had to go) has been trimmed.
C1_Witness ==
    \E d \in trimmed : ndestroy[d] >= 2 /\ Len(snaps[d]) = maxsnaps - 1

\* C2 (transfer-validation gating): every transfer selected or validated in
\* a cycle is for a dataset holding at least 2 snapshots, from the
\* second-most-recent to the most recent snapshot of the engine's creation
\* order; a dataset left with fewer than 2 snapshots has none.
C2_TransferGating ==
    /\ \A it \in pushed \cup Validated :
          LET l == snaps[it[1]]
          IN  /\ Len(l) >= 2
              /\ it[2] = l[Len(l) - 1]
              /\ it[3] = l[Len(l)]
    /\ \A d \in trimmed :
          Len(snaps[d]) < 2 => \A it \in pushed \cup Validated : it[1] # d

\* One dataset's transfer has been validated from a base that is not its
\* oldest snapshot, while another dataset, left with one snapshot, was skipped.
C2_Witness ==
    /\ mpc = "sleep"
    /\ \E it \in sent : Len(snaps[it[1]]) >= 3
    /\ \E d \in trimmed : Len(snaps[d]) = 1

\* C3 (worker failure aborts the cycle), as claimed: when a worker's
\* zfs_send_to_null has failed, the join of the cycle's workers ends with an
\* error, so the main thread never goes on to the cycle's sleep.
C3_WorkerFailureAbortsCycle ==
    mpc = "sleep" => \A w \in Workers : wpc[w] # "err"

C5_LockDiscipline ==
    /\ \A w \in Workers : mutex = Holder(w) <=> wpc[w] = "locked"
    /\ mutex = MainThread <=> mpc = "push"
    /\ \A w \in Workers : wpc[w] = "send" => mutex # Holder(w)
    /\ mpc \in {"children", "snapshot", "list", "destroy"}
          => mutex # MainThread

\* A worker dequeues while another worker's transfer validation is running.
C5_Witness ==
    \E v, w \in Workers :
        /\ wpc[v] = "send"
        /\ mutex = Holder(w)
        /\ sends # <<>>

\* C6 (cycle barrier and name uniqueness): a cycle's snapshot name is
\* computed only when every worker of the cycle before has been joined and
\* the sleep has elapsed, and the names of successive cycles strictly increase.
C6_CycleBarrier ==
    /\ \A i, j \in 1 .. Len(used) : i < j => used[i][2] < used[j][2]
    /\ mpc \in {"sleep", "name"} =>
          /\ threads = <<>>
          /\ \A w \in Workers : wpc[w] \in {"idle", "ok", "err"}
    /\ (mpc = "name" /\ used # <<>>) =>
          now >= used[Len(used)][2] + SLEEP_SECS

\* A second cycle has computed its name.
C6_Witness ==
    /\ Len(used) >= 2
    /\ mpc = "children"

\* The n newest snapshots of the list l (all of it when it has no more).
Newest(l, n) ==
    IF Len(l) <= n THEN l ELSE SubSeq(l, Len(l) - n + 1, Len(l))

\* C15 (minimal oldest-first trimming): while the retention loop of a
\* dataset runs, what it has destroyed is an initial part of the list the
\* dataset held when the cycle snapshot was added, oldest first and one
\* snapshot per destroy, and nothing is destroyed once fewer than maxsnaps
\* are left; when the loop has finished, the dataset holds exactly the
\* min(n, maxsnaps - 1) newest of those n snapshots, all of them when
\* n < maxsnaps.
C15_MinimalTrimming ==
    \A d \in Datasets :
        atsnap[d] # <<>> =>
            LET n == Len(atsnap[d])
            IN  /\ snaps[d] = Newest(atsnap[d], n - ndestroy[d])
                /\ ndestroy[d] > 0 => Len(snaps[d]) >= maxsnaps - 1
                /\ d \in trimmed =>
                      /\ snaps[d] = Newest(atsnap[d], maxsnaps - 1)
                      /\ n < maxsnaps => ndestroy[d] = 0

\* The retention loop of a dataset that held maxsnaps + 1 snapshots with the
\* cycle's has finished: it destroyed the two oldest and kept the rest.
C15_Witness ==
    \E d \in trimmed :
        /\ Len(atsnap[d]) = maxsnaps + 1
        /\ ndestroy[d] = 2
        /\ snaps[d] = SubSeq(atsnap[d], 3, maxsnaps + 1)

\* C16 (transfer validation always happens), as claimed: when the join of
\* a cycle's workers has returned, every transfer that was queued has been
\* validated exactly once and none is left in the queue, also when
\* validations failed.
C16_ValidationAlwaysHappens ==
    mpc = "sleep" =>
        /\ sends = <<>>
        /\ \A it \in pushed : it \in sent /\ taken[it[1]] = 1

\* C16 as amended: every queued transfer is validated at most once; when
\* the join has returned, the transfers not validated are exactly those
\* still in the queue, and there are none unless every one of the workers
\* ended with a failed validation.
C16_ValidationUnlessAllFailed ==
    /\ \A it \in pushed : taken[it[1]] <= 1
    /\ mpc = "sleep" =>
          /\ sent \cup SeqRange(sends) = pushed
          /\ sent \cap SeqRange(sends) = {}
          /\ \A it \in sent : taken[it[1]] = 1
          /\ sends # <<>> => \A w \in Workers : wpc[w] = "err"

\* The join has returned from a cycle in which more transfers were queued
\* than there are workers and some, but not all, workers failed: every
\* transfer was validated.
C16_Witness ==
    /\ mpc = "sleep"
    /\ Cardinality(pushed) > NWORKERS
    /\ \E w \in Workers : wpc[w] = "err"
    /\ \E w \in Workers : wpc[w] = "ok"
    /\ sent = pushed

\* C19 (cycle-granularity retry): after a cycle in which a storage-engine
\* call failed (snapshot, snapshot listing, snapshot destroy or transfer
\* validation) the outer loop goes on to its sleep and the next cycle: the
\* process has never ended after such a call failed.
C19_CycleGranularityRetry ==
    ~(failed \in {"snapshot", "list", "destroy"} /\ mpc = "exit")

\* C19 as the code has it: a failed call of the main thread (children,
\* snapshot, listing, destroy) is not retried and ends the process, before
\* any worker of that cycle is spawned or any transfer validated; nothing
\* else ends the process, so a cycle in which only transfer validations
\* failed is followed by the sleep and the next cycle.
C19_FailedCallEndsProcess ==
    /\ failed # "none" <=> mpc = "exit"
    /\ failed # "none" =>
          /\ threads = <<>>
          /\ sent = {}
          /\ \A w \in Workers : wpc[w] = "idle"
    /\ (\E w \in Workers : wpc[w] = "err") =>
          mpc \in {"spawn", "join", "sleep", "name"}

\* A cycle in which a transfer validation failed has ended and its sleep is
\* over: the loop is at the top of the next cycle.
C19_Witness ==
    /\ mpc = "name"
    /\ cycle >= 1
    /\ cycle < MaxCycles
    /\ \E w \in Workers : wpc[w] = "err"

\* C21 (per-dataset work runs in the pool): a dataset's cycle snapshot is
\* taken by the worker that dequeued the dataset, so a dataset whose cycle
\* snapshot exists has been dequeued by a worker.
C21_WorkInPool ==
    \A d \in Datasets : atsnap[d] # <<>> => taken[d] >= 1

\* C21 as the code has it: the main thread takes the snapshot and runs the
\* retention of one dataset at a time, before any worker of the cycle exists;
\* the queue holds the (ds, sold, snew) transfers it selected, and a worker
\* runs only when the snapshot and retention of every dataset are done, so
\* the workers perform the transfer validations and nothing else.
C21_WorkInMainThread ==
    [][/\ snaps' # snaps =>
             /\ mpc \in {"snapshot", "destroy"}
             /\ \A d \in Datasets \ {ds} : snaps'[d] = snaps[d]
             /\ \A w \in Workers : wpc[w] = "idle" /\ wpc'[w] = "idle"
       /\ (\E w \in Workers : wpc'[w] # "idle") => trimmed' = Datasets
       /\ (\E w \in Workers : wpc'[w] \in {"lock", "locked", "send"}) =>
             mpc' \in {"spawn", "join"}
       /\ \A i \in 1 .. Len(sends') :
             /\ sends'[i] \in pushed'
             /\ Len(sends'[i]) = Len(<<ds, listed, listed>>)
      ]_vars

\* Two workers validate transfers at the same time, after the main thread
\* has trimmed a dataset.
C21_Witness ==
    /\ \E v, w \in Workers : v # w /\ wpc[v] = "send" /\ wpc[w] = "send"
    /\ \E d \in Datasets : ndestroy[d] >= 1
    /\ mpc = "join"

\* C22 (retention never races with validation): no snapshot destroy is
\* issued while a transfer of the cycle is pending (queued) or its
\* validation is in flight.
C22_NoDestroyWhilePending ==
    [][(mpc = "destroy" /\ mpc' # "destroy") =>
           /\ sends = <<>>
           /\ \A w \in Workers : wpc[w] # "send"
      ]_vars

\* C22 as the code has it: the base and the target of every transfer selected
\* in a cycle exist for the rest of the cycle; a destroy is issued only for
\* the dataset of the for loop, whose transfer is not selected yet, and only
\* while no worker exists; while a worker runs the main thread is spawning
\* or joining.  (Transfers of datasets visited earlier are queued meanwhile.)
C22_RetentionBeforeValidation ==
    /\ \A it \in pushed :
          /\ it[2] \in SeqRange(snaps[it[1]])
          /\ it[3] \in SeqRange(snaps[it[1]])
    /\ mpc = "destroy" =>
          /\ \A w \in Workers : wpc[w] = "idle"
          /\ \A it \in pushed : it[1] # ds
    /\ (\E w \in Workers : wpc[w] \in {"lock", "locked", "send"}) =>
          mpc \in {"spawn", "join"}

\* A transfer is being validated that was selected before the retention of
\* a later dataset destroyed a snapshot.
C22_Witness ==
    \E w \in Workers :
        /\ wpc[w] = "send"
        /\ \E d \in Datasets : d > witem[w][1] /\ ndestroy[d] >= 1

\* C23 (validation targets the current cycle's snapshot): every transfer
\* selected or validated in a cycle has the snapshot created in this cycle as
\* its target and the snapshot that was the dataset's newest before the
\* cycle as its base, and the retention loop never destroys the snapshot
\* created in the cycle.
C23_TargetIsCycleSnapshot ==
    /\ \A it \in pushed \cup Validated :
          LET l == atsnap[it[1]]
          IN  /\ Len(l) >= 2
              /\ it[3] = snapname
              /\ it[3] = l[Len(l)]
              /\ it[2] = l[Len(l) - 1]
    /\ \A d \in Datasets :
          atsnap[d] # <<>> => snapname \in SeqRange(snaps[d])

\* In a second cycle a transfer has been validated for a dataset whose
\* retention destroyed a snapshot in that cycle.
C23_Witness ==
    /\ cycle >= 2
    /\ \E it \in sent : ndestroy[it[1]] >= 1 /\ it[3] = snapname

(***************************************************************************)
(* Seed::setup.  A step that fails, or at which the process is killed,     *)
(* leaves the pool as it is and ends the call ("failed"); setup is then    *)
(* called again by the next run of the program.                            *)
(***************************************************************************)
\* The paths the corpus loop can draw: mountpoint/l0/l1/l2.dat.
\* format!("{:<04X}", l0), format!("{:<04X}", l1), format!("{:<016X}.dat", l2)
FanOutName(l) == <<"X04", l>>
DatName(l) == <<"X016.dat", l>>
FilePath(l0, l1, l2) == <<FanOutName(l0), FanOutName(l1), DatName(l2)>>

\* if !zfs_snapshot_exists(..)? { zfs_destroy(..)?; ...
AfterMissingNoDestroy == "create"
AfterMissing == "destroy"

\* for _ in 0..SEED_FILE_COUNT
LoopDoneEarly(i) == i >= SEED_FILE_COUNT - 1
LoopDone(i) == i >= SEED_FILE_COUNT

\* The operations of a setup that regenerates the seed, in order.
Regeneration ==
    <<"destroy", "create">> \o [i \in 1 .. SEED_FILE_COUNT |-> "write"]
        \o <<"snapshot">>

IsPrefix(s, t) == Len(s) <= Len(t) /\ s = SubSeq(t, 1, Len(s))

SeedInit ==
    /\ \E id \in SeedIds : SeedStart(id, "root")
    /\ BackupOff
    /\ ChurnOff
    /\ SweepOff
    /\ ZfsOff
    /\ IoOff

\* let root = format!("{}/seed", pool); zfs_create(&log, &root, true)?;
SeedCreateRoot ==
    /\ spc = "root"
    /\ \E fault \in BOOLEAN :
         LET answer == EngineCreate(rootExists, fault)
         IN  /\ rootExists' = (rootExists \/ answer = "success")
             /\ spc' = IF zfs_create(answer, TRUE) = "Ok"
                       THEN "exists" ELSE "failed"
    /\ UNCHANGED <<seed, sid, iter, fp, stale, entry, ops>>
    /\ UNCHANGED notSeed

\* if !zfs_snapshot_exists(&log, &dataset, "final")? { .. } else { info!(..) }
SeedCheckFinal ==
    /\ spc = "exists"
    /\ \E fault \in BOOLEAN :
         LET answer == EngineList("final" \in seed[sid].snaps, fault)
             found == zfs_snapshot_exists(answer)
         IN  spc' = CASE found = "true" -> "done"
                      [] found = "false" -> AfterMissing
                      [] OTHER -> "failed"
    /\ UNCHANGED <<rootExists, seed, sid, iter, fp, stale, entry, ops>>
    /\ UNCHANGED notSeed

\* zfs_destroy(&log, &dataset, true)?  (recursive: with its snapshots)
SeedDestroy ==
    /\ spc = "destroy"
    /\ ops' = Append(ops, "destroy")
    /\ \E fault \in BOOLEAN :
         LET answer == EngineDestroy(seed[sid].exists, fault)
         IN  /\ seed' = IF answer = "success"
                        THEN [seed EXCEPT ![sid] = NoDataset]
                        ELSE seed
             /\ stale' = IF answer = "success" THEN {} ELSE stale
             /\ spc' = IF zfs_destroy(answer) = "Ok"
                       THEN "create" ELSE "failed"
    /\ UNCHANGED <<rootExists, sid, iter, fp, entry>>
    /\ UNCHANGED notSeed

\* zfs_create(&log, &dataset, false)?
SeedCreate ==
    /\ spc = "create"
    /\ ops' = Append(ops, "create")
    /\ \E fault \in BOOLEAN :
         LET answer == EngineCreate(seed[sid].exists, fault)
         IN  /\ seed' = IF answer = "success"
                        THEN [seed EXCEPT ![sid].exists = TRUE]
                        ELSE seed
             /\ spc' = IF zfs_create(answer, FALSE) = "Ok"
                       THEN "get" ELSE "failed"
    /\ UNCHANGED <<rootExists, sid, iter, fp, stale, entry>>
    /\ UNCHANGED notSeed

\* let mountpoint = PathBuf::from(zfs_get(&log, &dataset, "mountpoint")?);
SeedGet ==
    /\ spc = "get"
    /\ \E fault \in BOOLEAN :
         spc' = IF zfs_plain(EngineList(seed[sid].exists, fault)) = "Ok"
                THEN "chown" ELSE "failed"
    /\ UNCHANGED <<rootExists, seed, sid, iter, fp, stale, entry, ops>>
    /\ UNCHANGED notSeed

\* chown_to_me(&mountpoint)?; let mut rng = ..; (the loop counter starts at 0)
SeedChown ==
    /\ spc = "chown"
    /\ \E fault \in BOOLEAN :
         spc' = IF fault THEN "failed" ELSE "loop"
    /\ iter' = 0
    /\ UNCHANGED <<rootExists, seed, sid, fp, stale, entry, ops>>
    /\ UNCHANGED notSeed

\* for _ in 0..SEED_FILE_COUNT { let l0 = ..; let l1 = ..; let l2 = ..;
SeedLoop ==
    /\ spc = "loop"
    /\ IF LoopDone(iter)
       THEN /\ spc' = "snapshot"
            /\ fp' = fp
       ELSE /\ spc' = "open"
            /\ \E l0 \in 0 .. (FanOut - 1), l1 \in 0 .. (FanOut - 1),
                  l2 \in 0 .. (NameValues - 1) :
                 fp' = FilePath(l0, l1, l2)
    /\ UNCHANGED <<rootExists, seed, sid, iter, stale, entry, ops>>
    /\ UNCHANGED notSeed

\* create_dir_all(&fp)?; OpenOptions::new().write(true).truncate(true)
\*     .create(true).open(&fp)?
SeedOpen ==
    /\ spc = "open"
    /\ ops' = Append(ops, "write")
    /\ \E fault \in BOOLEAN :
         IF fault
         THEN /\ spc' = "failed"
              /\ UNCHANGED <<seed, stale>>
         ELSE /\ spc' = "write"
              /\ seed' = [seed EXCEPT ![sid].files = @ \cup {fp},
                                      ![sid].partial = @ \cup {fp}]
              /\ stale' = stale \ {fp}
    /\ UNCHANGED <<rootExists, sid, iter, fp, entry>>
    /\ UNCHANGED notSeed

\* for _ in 0..(sz_mb * 64) { .. bw.write(&buf)?; }  bw.flush()?;
SeedWrite ==
    /\ spc = "write"
    /\ \E fault \in BOOLEAN :
         IF fault
         THEN /\ spc' = "failed"
              /\ UNCHANGED <<seed, iter>>
         ELSE /\ spc' = "loop"
              /\ seed' = [seed EXCEPT ![sid].partial = @ \ {fp},
                                      ![sid].flushed = @ + 1]
              /\ iter' = iter + 1
    /\ UNCHANGED <<rootExists, sid, fp, stale, entry, ops>>
    /\ UNCHANGED notSeed

\* zfs_snapshot(&log, &dataset, "final", false)?;
SeedSnapshot ==
    /\ spc = "snapshot"
    /\ ops' = Append(ops, "snapshot")
    /\ \E fault \in BOOLEAN :
         LET answer == EngineSnapshot("final" \in seed[sid].snaps,
                                      fault \/ ~seed[sid].exists)
         IN  /\ seed' = IF answer = "success"
                        THEN [seed EXCEPT ![sid].snaps = @ \cup {"final"}]
                        ELSE seed
             /\ spc' = IF zfs_plain(answer) = "Ok" THEN "done" ELSE "failed"
    /\ UNCHANGED <<rootExists, sid, iter, fp, stale, entry>>
    /\ UNCHANGED notSeed

\* The program is run again and calls Seed::setup for the same seed: every
\* file the dataset holds was written by an earlier call.
SeedRerun ==
    /\ spc \in {"done", "failed"}
    /\ spc' = "root"
    /\ iter' = 0
    /\ fp' = NoPath
    /\ stale' = seed[sid].files
    /\ entry' = Summary(seed[sid])
    /\ ops' = <<>>
    /\ UNCHANGED <<rootExists, seed, sid>>
    /\ UNCHANGED notSeed

SeedNext ==
    \/ SeedCreateRoot
    \/ SeedCheckFinal
    \/ SeedDestroy
    \/ SeedCreate
    \/ SeedGet
    \/ SeedChown
    \/ SeedLoop
    \/ SeedOpen
    \/ SeedWrite
    \/ SeedSnapshot
    \/ SeedRerun

SeedSpec == SeedInit /\ [][SeedNext]_vars

(***************************************************************************)
(* Claims about Seed::setup.                                               *)
(***************************************************************************)
\* C7 (idempotent setup): a call of Seed::setup that finds the seed's final
\* snapshot performs no destroy, create, write or snapshot, never enters the
\* regeneration branch, and leaves the dataset, its files and its snapshot
\* as they were.
C7_IdempotentSetup ==
    entry.final =>
        /\ ops = <<>>
        /\ spc \in {"root", "exists", "done", "failed"}
        /\ Summary(seed[sid]) = entry
        /\ stale = seed[sid].files

\* A call that found the final snapshot has returned.
C7_Witness ==
    /\ entry.final
    /\ spc = "done"

\* C8 (resumability): a call of Seed::setup for a seed without the final
\* snapshot destroys the dataset, creates it, writes SEED_FILE_COUNT files and
\* takes the snapshot, in that order; once the dataset is recreated no file
\* of an earlier call is left.
C8_Resumability ==
    ~entry.final =>
        /\ IsPrefix(ops, Regeneration)
        /\ spc \in {"get", "chown", "loop", "open", "write", "snapshot"}
             => stale = {}
        /\ spc = "done" =>
             /\ ops = Regeneration
             /\ stale = {}
             /\ seed[sid].partial = {}
             /\ "final" \in seed[sid].snaps

\* A seed that an earlier, incomplete call left partially populated has been
\* regenerated.
C8_Witness ==
    /\ ~entry.final
    /\ entry.nfiles > 0
    /\ spc = "done"

\* C9 (sentinel invariant): in every state, a seed has its final snapshot
\* only if SEED_FILE_COUNT files were written and flushed since the dataset
\* was last created, and none of its files is half written.
C9_SentinelInvariant ==
    \A id \in SeedIds :
        "final" \in seed[id].snaps =>
            /\ seed[id].exists
            /\ seed[id].flushed = SEED_FILE_COUNT
            /\ seed[id].partial = {}

\* The final snapshot has been taken of a seed whose earlier setup was cut
\* short in the middle of a file.
C9_Witness ==
    /\ "final" \in seed[sid].snaps
    /\ entry.npartial > 0
    /\ ~entry.final

\* C20 (corpus file count): when a call of Seed::setup that regenerated the
\* corpus has returned, the seed holds exactly SEED_FILE_COUNT distinct files,
\* whatever l0, l1 and l2 the iterations of the loop drew.
C20_CorpusFileCount ==
    (~entry.final /\ spc = "done") =>
        Cardinality(seed[sid].files) = SEED_FILE_COUNT

(***************************************************************************)
(* file_futz.                                                              *)
(***************************************************************************)
\* The file sizes tried: every half kilobyte up to MaxBlocks kilobytes.
Sizes == {k * (KILOBYTE \div 2) : k \in 0 .. (2 * MaxBlocks)}

\* a - b on u64: a debug build panics when it overflows, a release build
\* wraps.
Overflows(a, b) == a < b
WrappingSub(a, b) == (a - b) % WordModulus

\* io::SeekFrom::Start(target)
SeekFromStart(t) == t

Max(a, b) == IF a >= b THEN a ELSE b

ChurnInit ==
    /\ \E b \in {"debug", "release"}, size \in Sizes :
         ChurnStart(b, size, "open")
    /\ BackupOff
    /\ SeedOff
    /\ SweepOff
    /\ ZfsOff
    /\ IoOff

\* OpenOptions::new().read(true).write(true).create(false).open(p)?;
\* let sz = f.metadata()?.len();
FutzOpen ==
    /\ fpc = "open"
    /\ \E fault \in BOOLEAN :
         IF fault
         THEN /\ fpc' = "err"
              /\ sz' = sz
         ELSE /\ fpc' = "iops"
              /\ sz' = fsize
    /\ UNCHANGED <<build, fsize, iops, opn, write, target, fpos, xfer>>
    /\ UNCHANGED notFutz

\* let iops = rng.gen_range(1..10_000);
FutzIops ==
    /\ fpc = "iops"
    /\ \E n \in 1 .. MaxIops : iops' = n
    /\ opn' = 0
    /\ fpc' = "loop"
    /\ UNCHANGED <<build, fsize, sz, write, target, fpos, xfer>>
    /\ UNCHANGED notFutz

\* for _ in 0..iops { let write = rng.gen_bool(0.40);
\*     let target = rng.gen_range(0..(sz / 1024 - 1));
\* gen_range panics on an empty range.
FutzDraw ==
    /\ fpc = "loop"
    /\ IF opn >= iops
       THEN /\ fpc' = "ok"
            /\ UNCHANGED <<write, target>>
       ELSE /\ \E wr \in BOOLEAN : write' = wr
            /\ LET high == WrappingSub(sz \div KILOBYTE, 1)
               IN  IF build = "debug" /\ Overflows(sz \div KILOBYTE, 1)
                   THEN /\ fpc' = "panic"
                        /\ target' = target
                   ELSE IF high = 0
                   THEN /\ fpc' = "panic"
                        /\ target' = target
                   ELSE /\ fpc' = "seek"
                        /\ \E t \in 0 .. (high - 1) : target' = t
    /\ UNCHANGED <<build, fsize, sz, iops, opn, fpos, xfer>>
    /\ UNCHANGED notFutz

\* f.seek(io::SeekFrom::Start(target))?;
FutzSeek ==
    /\ fpc = "seek"
    /\ \E fault \in BOOLEAN :
         IF fault
         THEN /\ fpc' = "err"
              /\ fpos' = fpos
         ELSE /\ fpc' = "xfer"
              /\ fpos' = SeekFromStart(target)
    /\ UNCHANGED <<build, fsize, sz, iops, opn, write, target, xfer>>
    /\ UNCHANGED notFutz

\* if write { .. f.write_all(buf)?; f.flush()?; }
\* A write past the end of the file extends the file.
FutzWrite ==
    /\ fpc = "xfer"
    /\ write
    /\ \E fault \in BOOLEAN :
         IF fault
         THEN /\ fpc' = "err"
              /\ UNCHANGED <<fsize, opn, xfer>>
         ELSE /\ fpc' = "loop"
              /\ fsize' = Max(fsize, fpos + KILOBYTE)
              /\ xfer' = <<"write", fpos, KILOBYTE>>
              /\ opn' = opn + 1
    /\ UNCHANGED <<build, sz, iops, write, target, fpos>>
    /\ UNCHANGED notFutz

\* else { f.read_exact(buf)?; }
\* read_exact fails when the kilobyte reaches past the end of the file.
FutzRead ==
    /\ fpc = "xfer"
    /\ ~write
    /\ \E fault \in BOOLEAN :
         IF fault \/ fpos + KILOBYTE > fsize
         THEN /\ fpc' = "err"
              /\ UNCHANGED <<opn, xfer>>
         ELSE /\ fpc' = "loop"
              /\ xfer' = <<"read", fpos, KILOBYTE>>
              /\ opn' = opn + 1
    /\ UNCHANGED <<build, fsize, sz, iops, write, target, fpos>>
    /\ UNCHANGED notFutz

ChurnNext ==
    \/ FutzOpen
    \/ FutzIops
    \/ FutzDraw
    \/ FutzSeek
    \/ FutzWrite
    \/ FutzRead

ChurnSpec == ChurnInit /\ [][ChurnNext]_vars

(***************************************************************************)
(* Claims about file_futz.                                                 *)
(***************************************************************************)
\* C10 (churn offset safety), as claimed: for a file of S bytes (two
\* kilobytes or more, so that an offset can be drawn), every operation draws
\* its offset from [0, S/1024 - 1) and seeks to the byte offset*1024, which
\* lies in [0, S - 1024).
C10_OffsetSafety ==
    (fpc = "xfer" /\ sz >= 2 * KILOBYTE) =>
        /\ target \in 0 .. ((sz \div KILOBYTE) - 2)
        /\ fpos = target * KILOBYTE
        /\ 0 <= fpos /\ fpos < sz - KILOBYTE

(***************************************************************************)
(* Plant::start: the loop of one I/O thread.  Each pass walks the tree,    *)
(* shuffles the indexes of the files found and calls file_futz on each.    *)
(***************************************************************************)
\* The entries a walk yields: the mountpoint itself, then the files.
DirEntry == [kind |-> "dir", size |-> 0]
FileEntry(size) == [kind |-> "file", size |-> size]

\* A tree of n files; their sizes step by half a kilobyte from the given one,
\* around the sizes 0 .. MaxBlocks kilobytes.
InitTree(n, base) ==
    <<DirEntry>> \o
        [k \in 1 .. n |->
            FileEntry(((base + k - 1) % (2 * MaxBlocks + 1))
                          * (KILOBYTE \div 2))]

\* The sets of entries for which one walk can report an error.
WalkErrors(t) ==
    {e \in SUBSET (1 .. Len(t)) : Cardinality(e) <= MaxWalkErrors}

\* for ent in walk.into_iter(): entries with an error and entries that are
\* not regular files are skipped, the paths of the others are collected.
WalkFiles(t, errs) ==
    SelectSeq([k \in 1 .. Len(t) |-> k],
              LAMBDA k : k \notin errs /\ t[k].kind = "file")

\* for i in 0..files.len() { neworder.push_back(i); }
Identity(n) == [k \in 1 .. n |-> k - 1]

\* let j = rng.gen_range(0..i);
ShuffleDraws(i) == 0 .. (i - 1)

\* neworder.swap(i, j): i and j count from 0.
SwapOverwrite(q, i, j) == [q EXCEPT ![i + 1] = q[j + 1]]
Swap(q, i, j) == [q EXCEPT ![i + 1] = q[j + 1], ![j + 1] = q[i + 1]]

\* Every order the shuffle loop can leave in neworder, from q at index i:
\* while i >= 1 { let j = ..; neworder.swap(i, j); i -= 1; }
RECURSIVE ShuffleFrom(_, _)
ShuffleFrom(q, i) ==
    IF i >= 1
    THEN UNION {ShuffleFrom(Swap(q, i, j), i - 1) : j \in ShuffleDraws(i)}
    ELSE {q}

\* if !neworder.is_empty() { let mut i = neworder.len() - 1; while .. }
ShuffleOrders(n) ==
    IF n = 0 THEN {<<>>} ELSE ShuffleFrom(Identity(n), n - 1)

SweepInit ==
    /\ \E n \in 0 .. MaxFiles, base \in 0 .. (2 * MaxBlocks) :
         SweepStart(InitTree(n, base), "walk")
    /\ \E b \in {"debug", "release"} : ChurnStart(b, 0, "off")
    /\ BackupOff
    /\ SeedOff
    /\ ZfsOff
    /\ IoOff

\* let mut files = Vec::new(); for ent in walk.into_iter() { .. }
\* let mut neworder = VecDeque::new(); for i in 0..files.len() { .. }
\* if !neworder.is_empty() { let mut i = neworder.len() - 1; ..
SweepWalk ==
    /\ tpc = "walk"
    /\ \E errs \in WalkErrors(tree) :
         LET found == WalkFiles(tree, errs)
             n == Len(found)
         IN  /\ files' = found
             /\ neworder' = Identity(n)
             /\ visits' = [k \in 1 .. n |-> 0]
             /\ si' = IF n = 0 THEN 0 ELSE n - 1
             /\ tpc' = IF n = 0 THEN "pop" ELSE "shuffle"
    /\ cur' = 0
    /\ logged' = 0
    /\ UNCHANGED tree
    /\ UNCHANGED churnVars
    /\ UNCHANGED notSweep

\* while i >= 1 { let j = rng.gen_range(0..i); neworder.swap(i, j); i -= 1; }
SweepShuffle ==
    /\ tpc = "shuffle"
    /\ IF si >= 1
       THEN /\ \E j \in ShuffleDraws(si) : neworder' = Swap(neworder, si, j)
            /\ si' = si - 1
            /\ UNCHANGED tpc
       ELSE /\ tpc' = "pop"
            /\ UNCHANGED <<neworder, si>>
    /\ UNCHANGED <<tree, files, cur, visits, logged>>
    /\ UNCHANGED churnVars
    /\ UNCHANGED notSweep

\* while let Some(i) = neworder.pop_front() { .. file_futz(&files[i], ..
\* When the deque is empty the thread's loop starts its next pass.
SweepPop ==
    /\ tpc = "pop"
    /\ IF neworder = <<>>
       THEN /\ tpc' = "walk"
            /\ UNCHANGED <<neworder, cur, visits>>
            /\ UNCHANGED churnVars
       ELSE /\ cur' = Head(neworder)
            /\ neworder' = Tail(neworder)
            /\ visits' = [visits EXCEPT ![Head(neworder) + 1] = @ + 1]
            /\ tpc' = "futz"
            /\ fsize' = tree[files[Head(neworder) + 1]].size
            /\ fpc' = "open"
            /\ sz' = 0
            /\ iops' = 0
            /\ opn' = 0
            /\ write' = FALSE
            /\ target' = 0
            /\ fpos' = 0
            /\ xfer' = <<>>
            /\ UNCHANGED build
    /\ UNCHANGED <<tree, files, si, logged>>
    /\ UNCHANGED notSweep

\* if let Err(e) = file_futz(..) { error!(&log, "file futz error: {:?}", e); }
SweepReturn ==
    /\ tpc = "futz"
    /\ fpc \in {"ok", "err"}
    /\ logged' = IF fpc = "err" THEN logged + 1 ELSE logged
    /\ tree' = [tree EXCEPT ![files[cur + 1]].size = fsize]
    /\ tpc' = "pop"
    /\ fsize' = 0
    /\ fpc' = "off"
    /\ sz' = 0
    /\ iops' = 0
    /\ opn' = 0
    /\ write' = FALSE
    /\ target' = 0
    /\ fpos' = 0
    /\ xfer' = <<>>
    /\ UNCHANGED build
    /\ cur' = 0
    /\ UNCHANGED <<files, neworder, si, visits>>
    /\ UNCHANGED notSweep

\* A panic inside file_futz is not an Err: it unwinds the closure given to
\* thread::spawn and ends the thread.
SweepPanic ==
    /\ tpc = "futz"
    /\ fpc = "panic"
    /\ tpc' = "dead"
    /\ tree' = [tree EXCEPT ![files[cur + 1]].size = fsize]
    /\ UNCHANGED <<files, neworder, si, cur, visits, logged>>
    /\ UNCHANGED churnVars
    /\ UNCHANGED notSweep

SweepNext ==
    \/ SweepWalk
    \/ SweepShuffle
    \/ SweepPop
    \/ SweepReturn
    \/ SweepPanic
    \/ FutzOpen
    \/ FutzIops
    \/ FutzDraw
    \/ FutzSeek
    \/ FutzWrite
    \/ FutzRead

SweepSpec == SweepInit /\ [][SweepNext]_vars

(***************************************************************************)
(* Claims about the I/O thread.                                            *)
(***************************************************************************)
\* C11 (single-file failures are never fatal), as claimed: whatever the
\* size of a file, file_futz on it completes or returns an error, without a
\* transfer that reaches past the end of the file as it was opened, and the
\* thread goes on with its sweep: file_futz never panics and the thread
\* never ends.
C11_SingleFileFailuresNotFatal ==
    /\ fpc # "panic"
    /\ tpc # "dead"
    /\ xfer # <<>> => xfer[2] + xfer[3] <= sz

\* C12 (shuffle coverage): in a sweep over the files the walk collected,
\* the order left by the shuffle is a permutation of their indexes, no file
\* is processed twice, the files processed are exactly those no longer in
\* the deque, and when the sweep ends and the next one begins every
\* collected file has been processed exactly once, also when file_futz
\* failed on some of them.
C12_ShuffleCoverage ==
    LET n == Len(files)
    IN  /\ Len(visits) = n
        /\ \A k \in 1 .. n : visits[k] <= 1
        /\ \A a, b \in 1 .. Len(neworder) :
              a # b => neworder[a] # neworder[b]
        /\ SeqRange(neworder) \subseteq 0 .. (n - 1)
        /\ tpc = "shuffle" =>
              /\ SeqRange(neworder) = 0 .. (n - 1)
              /\ \A k \in 1 .. n : visits[k] = 0
        /\ tpc \in {"pop", "futz", "dead"} =>
              \A k \in 1 .. n :
                  visits[k] = IF (k - 1) \in SeqRange(neworder) THEN 0 ELSE 1
        /\ tpc = "walk" => \A k \in 1 .. n : visits[k] = 1

\* A sweep over two or more files, some of which failed, has ended and the
\* thread is about to begin the next one.
C12_Witness ==
    /\ tpc = "walk"
    /\ Len(files) >= 2
    /\ logged >= 1

\* All orders of n indexes.
AllOrders(n) ==
    {q \in [1 .. n -> 0 .. (n - 1)] :
        \A a, b \in 1 .. n : a # b => q[a] # q[b]}

\* C13 (shuffle uniformity), as claimed: the orders the shuffle can leave
\* for the N files of a sweep are all N! permutations of their indexes, the
\* one that leaves every file at its walk position among them.
C13_ShuffleUniformity ==
    (tpc = "pop" /\ Len(neworder) = Len(files)) =>
        /\ ShuffleOrders(Len(files)) = AllOrders(Len(files))
        /\ Identity(Len(files)) \in ShuffleOrders(Len(files))

(***************************************************************************)
(* zfs.rs: one call of a function, with arbitrary names and an arbitrary   *)
(* answer of the engine.                                                   *)
(***************************************************************************)
\* The characters of a name: '@', '/' and any other character.
Chars == {"a", "@", "/"}

Names == UNION {[1 .. k -> Chars] : k \in 0 .. MaxNameLen}

\* n.contains(c)
Contains(n, c) == \E i \in 1 .. Len(n) : n[i] = c

\* validate_snapshot_name: TRUE for Ok(()), FALSE for bail!.
validate_snapshot_name_at_only(n) == ~Contains(n, "@")
validate_snapshot_name(n) == ~(Contains(n, "@") \/ Contains(n, "/"))

\* validate_dataset_name
validate_dataset_name(n) == ~Contains(n, "@")

\* What cmd.output() can bring back.
Answers ==
    {"success", "dataset does not exist", "dataset already exists",
     "other failure"}

\* The record of a call: the function, its dataset-name arguments and its
\* snapshot-name arguments.
Call(op, datasets, snapshots) ==
    [op |-> op, datasets |-> datasets, snapshots |-> snapshots]

\* The shape all functions share: the validations first, each ending the
\* call with an error; then the command is built and executed, and its
\* outcome classified.
ZfsReturn(c, valid, cmd, ans, result) ==
    /\ zpc' = "return"
    /\ call' = c
    /\ execd' = IF valid THEN <<cmd>> ELSE <<>>
    /\ reply' = IF valid THEN ans ELSE "none"
    /\ ret' = IF valid THEN result ELSE "Err"
    /\ UNCHANGED notZfs

ZfsInit ==
    /\ ZfsStart("call")
    /\ BackupOff
    /\ SeedOff
    /\ ChurnOff
    /\ SweepOff
    /\ IoOff

ZfsDestroySnapshot ==
    /\ zpc = "call"
    /\ \E dataset \in Names, sname \in Names, ans \in Answers :
           ZfsReturn(Call("zfs_destroy_snapshot", <<dataset>>, <<sname>>),
                     validate_dataset_name(dataset)
                         /\ validate_snapshot_name(sname),
                     <<"destroy", FullName(dataset, sname)>>,
                     ans, zfs_destroy(ans))

ZfsDestroy ==
    /\ zpc = "call"
    /\ \E dataset \in Names, recursive \in BOOLEAN, ans \in Answers :
           ZfsReturn(Call("zfs_destroy", <<dataset>>, <<>>),
                     validate_dataset_name(dataset),
                     IF recursive THEN <<"destroy", "-r", dataset>>
                                  ELSE <<"destroy", dataset>>,
                     ans, zfs_destroy(ans))

ZfsCreate ==
    /\ zpc = "call"
    /\ \E dataset \in Names, exists_ok \in BOOLEAN, ans \in Answers :
           ZfsReturn([Call("zfs_create", <<dataset>>, <<>>)
                         EXCEPT !.op = IF exists_ok THEN "zfs_create exists_ok"
                                                    ELSE "zfs_create"],
                     validate_dataset_name(dataset),
                     <<"create", dataset>>,
                     ans, zfs_create(ans, exists_ok))

ZfsSnapshot ==
    /\ zpc = "call"
    /\ \E dataset \in Names, name \in Names, recursive \in BOOLEAN,
          ans \in Answers :
           ZfsReturn(Call("zfs_snapshot", <<dataset>>, <<name>>),
                     validate_dataset_name(dataset)
                         /\ validate_snapshot_name(name),
                     IF recursive
                     THEN <<"snapshot", "-r", FullName(dataset, name)>>
                     ELSE <<"snapshot", FullName(dataset, name)>>,
                     ans, zfs_plain(ans))

ZfsClone ==
    /\ zpc = "call"
    /\ \E dataset \in Names, sname \in Names, tgt \in Names,
          ans \in Answers :
           ZfsReturn(Call("zfs_clone", <<dataset, tgt>>, <<sname>>),
                     validate_dataset_name(dataset)
                         /\ validate_snapshot_name(sname)
                         /\ validate_dataset_name(tgt),
                     <<"clone", FullName(dataset, sname), tgt>>,
                     ans, zfs_plain(ans))

ZfsGet ==
    /\ zpc = "call"
    /\ \E dataset \in Names, ans \in Answers :
           ZfsReturn(Call("zfs_get", <<dataset>>, <<>>),
                     validate_dataset_name(dataset),
                     <<"get", "-H", "-o", "value", "mountpoint", dataset>>,
                     ans, zfs_plain(ans))

ZfsSnapshotExists ==
    /\ zpc = "call"
    /\ \E dataset \in Names, sname \in Names, ans \in Answers :
           ZfsReturn(Call("zfs_snapshot_exists", <<dataset>>, <<sname>>),
                     validate_dataset_name(dataset)
                         /\ validate_snapshot_name(sname),
                     <<"list", "-Ho", "name", FullName(dataset, sname)>>,
                     ans, zfs_snapshot_exists(ans))

ZfsDatasetChildren ==
    /\ zpc = "call"
    /\ \E dataset \in Names, ans \in Answers :
           ZfsReturn(Call("zfs_dataset_children", <<dataset>>, <<>>),
                     validate_dataset_name(dataset),
                     <<"list", "-t", "filesystem", "-d", "1", "-Ho", "name",
                       dataset>>,
                     ans, zfs_plain(ans))

ZfsSnapshotList ==
    /\ zpc = "call"
    /\ \E dataset \in Names, ans \in Answers :
           ZfsReturn(Call("zfs_snapshot_list", <<dataset>>, <<>>),
                     validate_dataset_name(dataset),
                     <<"list", "-t", "snapshot", "-d", "1", "-Ho", "name",
                       "-s", "creation", dataset>>,
                     ans, zfs_plain(ans))

ZfsSendToNull ==
    /\ zpc = "call"
    /\ \E dataset \in Names, snapold \in Names, snapnew \in Names,
          ans \in Answers :
           ZfsReturn(Call("zfs_send_to_null", <<dataset>>, <<snapold, snapnew>>),
                     validate_dataset_name(dataset)
                         /\ validate_snapshot_name(snapold)
                         /\ validate_snapshot_name(snapnew),
                     <<"send", "-i", FullName(dataset, snapold),
                       FullName(dataset, snapnew)>>,
                     ans, zfs_plain(ans))

ZfsNext ==
    \/ ZfsDestroySnapshot
    \/ ZfsDestroy
    \/ ZfsCreate
    \/ ZfsSnapshot
    \/ ZfsClone
    \/ ZfsGet
    \/ ZfsSnapshotExists
    \/ ZfsDatasetChildren
    \/ ZfsSnapshotList
    \/ ZfsSendToNull

ZfsSpec == ZfsInit /\ [][ZfsNext]_vars

(***************************************************************************)
(* Claims about zfs.rs.                                                    *)
(***************************************************************************)
\* A call with a dataset name holding '@', or a snapshot name holding '@'
\* or '/'.
BadName(c) ==
    \/ \E i \in 1 .. Len(c.datasets) : Contains(c.datasets[i], "@")
    \/ \E i \in 1 .. Len(c.snapshots) :
          Contains(c.snapshots[i], "@") \/ Contains(c.snapshots[i], "/")

\* C14 (name validation precedes every external call): a call of any of
\* the ten functions with a dataset name that holds '@', or a snapshot name
\* that holds '@' or '/', returns an error and has executed no external
\* command.
C14_NameValidation ==
    (zpc = "return" /\ BadName(call)) =>
        /\ ret = "Err"
        /\ execd = <<>>

\* zfs_send_to_null was called with a good dataset name and base and with a
\* target snapshot name that holds '/' (and no '@'), and was refused.
C14_Witness ==
    /\ zpc = "return"
    /\ call.op = "zfs_send_to_null"
    /\ ~BadName(Call(call.op, call.datasets, <<call.snapshots[1]>>))
    /\ Contains(call.snapshots[2], "/")
    /\ ~Contains(call.snapshots[2], "@")
    /\ ret = "Err"
    /\ execd = <<>>

\* The functions whose failures the claim speaks of (all but
\* zfs_snapshot_exists), and the failure each of them takes for success.
Classified ==
    {"zfs_create", "zfs_create exists_ok", "zfs_destroy",
     "zfs_destroy_snapshot", "zfs_snapshot", "zfs_clone", "zfs_get",
     "zfs_dataset_children", "zfs_snapshot_list", "zfs_send_to_null"}

Tolerated(op) ==
    CASE op \in {"zfs_destroy", "zfs_destroy_snapshot"}
            -> {"dataset does not exist"}
      [] op = "zfs_create exists_ok" -> {"dataset already exists"}
      [] OTHER -> {}

\* C17 (idempotent error classification): of the calls whose command was
\* executed, destroy and destroy-snapshot answered "does not exist" return
\* success; create answered "already exists" returns success with exists_ok
\* and an error without; and every other failure of create, destroy,
\* snapshot, clone, get, the two lists and send is returned as an error.
C17_ErrorClassification ==
    (zpc = "return" /\ execd # <<>> /\ call.op \in Classified) =>
        /\ reply = "success" => ret = "Ok"
        /\ reply \in Tolerated(call.op) => ret = "Ok"
        /\ (reply # "success" /\ reply \notin Tolerated(call.op))
              => ret = "Err"

\* A create without exists_ok was answered "already exists" and failed,
\* where the same answer to a destroy-snapshot would be a plain failure.
C17_Witness ==
    /\ zpc = "return"
    /\ call.op = "zfs_create"
    /\ execd # <<>>
    /\ reply = "dataset already exists"
    /\ ret = "Err"

(***************************************************************************)
(* main(), "io": the seeds are set up, the plant container is destroyed    *)
(* and created, every plant is set up by Plant::setup and then its I/O     *)
(* threads are started.  A call that fails ends the process ("exit").      *)
(***************************************************************************)
\* What follows the set-up of the seeds: zfs_destroy(&log, "dynamite/plant",
\* true)?; zfs_create(&log, "dynamite/plant", false)?;
AfterSeedsPlants == "plant"
AfterSeeds == "destroy"

\* Plant { log, id, parent, mountpoint, dataset }
Plant(id, seedid) == [id |-> id, parent |-> seedid]

IoInit ==
    /\ \E c \in {"none", "old"}, old \in SUBSET PlantIds :
         /\ c = "none" => old = {}
         /\ IoStart(c, old, "seeds")
    /\ BackupOff
    /\ SeedOff
    /\ ChurnOff
    /\ SweepOff
    /\ ZfsOff

\* (0..10u64).map(|id| Seed::setup(log.clone(), "dynamite", id))
\*     .collect::<Result<Vec<_>>>()?
IoSeed ==
    /\ ipc = "seeds"
    /\ \E fault \in BOOLEAN :
         IF fault
         THEN /\ ipc' = "exit"
              /\ seeds' = seeds
         ELSE /\ seeds' = Append(seeds, Len(seeds))
              /\ ipc' = IF Len(seeds') = NumSeeds THEN AfterSeeds ELSE "seeds"
    /\ UNCHANGED <<container, plant, plants, pid, parent, started, previous>>
    /\ UNCHANGED notIo

\* zfs_destroy(&log, "dynamite/plant", true)?  A recursive destroy that the
\* engine fails may have destroyed some of the children already.
IoDestroy ==
    /\ ipc = "destroy"
    /\ \E fault \in BOOLEAN :
         LET answer == EngineDestroy(container # "none", fault)
         IN  /\ IF answer = "success"
                THEN /\ container' = "none"
                     /\ plant' = [id \in PlantIds |-> "none"]
                ELSE /\ container' = container
                     /\ \E gone \in SUBSET {id \in PlantIds :
                                              plant[id] # "none"} :
                          plant' = [id \in PlantIds |->
                                       IF id \in gone THEN "none"
                                       ELSE plant[id]]
             /\ ipc' = IF zfs_destroy(answer) = "Ok" THEN "create" ELSE "exit"
    /\ UNCHANGED <<seeds, plants, pid, parent, started, previous>>
    /\ UNCHANGED notIo

\* zfs_create(&log, "dynamite/plant", false)?
IoCreate ==
    /\ ipc = "create"
    /\ \E fault \in BOOLEAN :
         LET answer == EngineCreate(container # "none", fault)
         IN  /\ container' = IF answer = "success" THEN "new" ELSE container
             /\ ipc' = IF zfs_create(answer, FALSE) = "Ok"
                       THEN "plant" ELSE "exit"
    /\ UNCHANGED <<seeds, plant, plants, pid, parent, started, previous>>
    /\ UNCHANGED notIo

\* (0..60).map(|id| { let si = rng.gen_range(0..seeds.len());
\*     let seed = seeds[si].dataset().to_string();
\*     Plant::setup(log.clone(), "dynamite", id, &seed) })
IoPlant ==
    /\ ipc = "plant"
    /\ IF Len(plants) = NumPlants
       THEN /\ ipc' = "start"
            /\ UNCHANGED <<pid, parent>>
       ELSE /\ ipc' = "pdestroy"
            /\ pid' = Len(plants)
            /\ \E s \in 0 .. (Len(seeds) - 1) : parent' = seeds[s + 1]
    /\ UNCHANGED <<seeds, container, plant, plants, started, previous>>
    /\ UNCHANGED notIo

\* Plant::setup: zfs_destroy(&log, &dataset, true)?
PlantDestroy ==
    /\ ipc = "pdestroy"
    /\ \E fault \in BOOLEAN :
         LET answer == EngineDestroy(plant[pid] # "none", fault)
         IN  /\ plant' = IF answer = "success"
                         THEN [plant EXCEPT ![pid] = "none"]
                         ELSE plant
             /\ ipc' = IF zfs_destroy(answer) = "Ok" THEN "pclone" ELSE "exit"
    /\ UNCHANGED <<seeds, container, plants, pid, parent, started, previous>>
    /\ UNCHANGED notIo

\* Plant::setup: zfs_clone(&log, parent, "final", &dataset)?  The engine
\* refuses a target that exists or whose parent dataset does not.
PlantClone ==
    /\ ipc = "pclone"
    /\ \E fault \in BOOLEAN :
         LET answer == EngineCreate(plant[pid] # "none",
                                    fault \/ container = "none")
         IN  /\ plant' = IF answer = "success"
                         THEN [plant EXCEPT ![pid] = "new"]
                         ELSE plant
             /\ ipc' = IF zfs_plain(answer) = "Ok" THEN "pget" ELSE "exit"
    /\ UNCHANGED <<seeds, container, plants, pid, parent, started, previous>>
    /\ UNCHANGED notIo

\* Plant::setup: let mountpoint = PathBuf::from(zfs_get(&log, &dataset,
\*     "mountpoint")?);
PlantGet ==
    /\ ipc = "pget"
    /\ \E fault \in BOOLEAN :
         ipc' = IF zfs_plain(EngineList(plant[pid] # "none", fault)) = "Ok"
                THEN "pchown" ELSE "exit"
    /\ UNCHANGED <<seeds, container, plant, plants, pid, parent, started,
                   previous>>
    /\ UNCHANGED notIo

\* Plant::setup: chown_to_me(&mountpoint)?; Ok(Plant { .. })
PlantChown ==
    /\ ipc = "pchown"
    /\ \E fault \in BOOLEAN :
         IF fault
         THEN /\ ipc' = "exit"
              /\ plants' = plants
         ELSE /\ ipc' = "plant"
              /\ plants' = Append(plants, Plant(pid, parent))
    /\ UNCHANGED <<seeds, container, plant, pid, parent, started, previous>>
    /\ UNCHANGED notIo

\* for p in &plants { p.start(4)?; }  then  loop { sleep(1_000_000); }
PlantStart ==
    /\ ipc = "start"
    /\ LET k == Cardinality(started) + 1
       IN  /\ started' = started \cup {plants[k].id}
           /\ ipc' = IF k = Len(plants) THEN "idle" ELSE "start"
    /\ UNCHANGED <<seeds, container, plant, plants, pid, parent, previous>>
    /\ UNCHANGED notIo

IoNext ==
    \/ IoSeed
    \/ IoDestroy
    \/ IoCreate
    \/ IoPlant
    \/ PlantDestroy
    \/ PlantClone
    \/ PlantGet
    \/ PlantChown
    \/ PlantStart

IoSpec == IoInit /\ [][IoNext]_vars

(***************************************************************************)
(* Claims about the "io" mode.                                             *)
(***************************************************************************)
\* C18 (no plants from a previous run): from the creation of the run's first
\* plant on, the plant container and every plant under it were created by
\* this run, and the I/O threads run only on plants this run created.
C18_NoPreviousPlants ==
    /\ (\E id \in PlantIds : plant[id] = "new") =>
          /\ container = "new"
          /\ \A id \in PlantIds : plant[id] # "old"
    /\ \A id \in started : plant[id] = "new"

\* A run that found plants of an earlier run has started the I/O threads of
\* all its plants.
C18_Witness ==
    /\ previous # {}
    /\ started = PlantIds
    /\ ipc = "idle"

(***************************************************************************)
(* The main thread's loop over the datasets of one cycle, in a pool where  *)
(* someone else (an administrator, another run of the program) destroys    *)
(* snapshots meanwhile: a snapshot the retention loop has listed may be    *)
(* gone when zfs_destroy_snapshot is called for it.                        *)
(***************************************************************************)
RetentionInit ==
    /\ \E n \in 0 .. MaxInitSnaps : BackupStart(InitPool(n), "name")
    /\ SeedOff
    /\ ChurnOff
    /\ SweepOff
    /\ ZfsOff
    /\ IoOff

\* "zfs destroy dataset@name", issued by someone else while a retention loop
\* runs.
OtherDestroy ==
    /\ mpc \in {"list", "destroy"}
    /\ removed < MaxRemoved
    /\ removed' = removed + 1
    /\ \E d \in Datasets, i \in 1 .. MaxInitSnaps + 1 :
         /\ i <= Len(snaps[d])
         /\ snaps' = [snaps EXCEPT ![d] = RemoveSnap(@, snaps[d][i])]
    /\ UNCHANGED <<now, mpc, cycle, snapname, todo, ds, listed, sends, mutex,
                   threads, wpc, witem, used, trimmed, ndestroy, pushed,
                   taken, sent, atsnap, failed, dcalls>>
    /\ UNCHANGED notBackup

RetentionNext ==
    \/ MainName
    \/ MainChildren
    \/ MainForNext
    \/ MainSnapshot
    \/ MainList
    \/ MainDestroy
    \/ MainSelect
    \/ MainLock
    \/ MainPush
    \/ OtherDestroy

RetentionSpec == RetentionInit /\ [][RetentionNext]_vars

\* C24 (retention loop termination): for a dataset holding n snapshots when
\* its retention starts, the loop issues at most max(0, n - maxsnaps + 1)
\* destroy calls, also when a call is answered "does not exist": every call
\* that returned Ok stands for a snapshot that is gone from the dataset, and
\* the loop has ended with fewer than maxsnaps snapshots listed.
C24_RetentionTerminates ==
    \A d \in Datasets :
        LET n == Len(atsnap[d])
        IN  /\ dcalls[d] <= Max(0, n - maxsnaps + 1)
            /\ atsnap[d] # <<>> =>
                  dcalls[d] <= n - Len(snaps[d])
                                 + (IF failed = "destroy" /\ d = ds
                                    THEN 1 ELSE 0)
            /\ d \in trimmed => Len(snaps[d]) < maxsnaps

\* A retention loop has ended after a destroy call that was answered "does
\* not exist" and treated as success.
C24_Witness ==
    \E d \in trimmed :
        /\ dcalls[d] > ndestroy[d]
        /\ failed = "none"

====
